---- MODULE Spec2Model ----
(***************************************************************************)
(* State-machine model of the bank-in-a-box consent and payment core.      *)
(*                                                                         *)
(* Tables of the relational store are sequences of records; the integer   *)
(* primary key of a row is its index.  External identifiers, which the    *)
(* code builds from uuid4, are tagged values: a string id never equals    *)
(* an integer key, as in Python.                                           *)
(***************************************************************************)
EXTENDS Integers, Sequences, FiniteSets, TLC

\* ------------------------------------------------------------------ bounds
MaxTime == 1
MaxRequests == 2
ConsentTTL == 1
PaymentConsentTTL == 1
MaxPaymentRequests == 1
MaxPayments == 2
MaxAmount == 2
InitialBalance == 2
InitialCapital == 3
MaxVrpConsents == 1
MaxVrpPayments == 2
MaxValidDays == 1
MaxTransactions == 2
MaxHistory == 3

\* --------------------------------------------------------------- constants
DefaultLimit == 50
QueryLimitMax == 100
HardLimit == 500

\* ------------------------------------------------------------- value sets
None == "None"
\* a DateTime column that holds NULL
NoTime == -1
Clients == {"cli1", "cli2"}
UnknownClient == "cli9"
Banks == {"team1", "team2"}
Permissions == {"ReadAccountsDetail", "ReadBalances", "ReadTransactionsDetail"}
\* permissions lists a consent request may carry (any list of strings is accepted)
PermissionLists == {{}, {"ReadAccountsDetail"}, Permissions}
\* permissions=[...] as the resource handlers pass it to check_consent
RequiredPermissions == {{perm} : perm \in Permissions}

Currencies == {"RUB", "USD"}
Amounts == 1..MaxAmount
\* account numbers held by this bank, and one that is held elsewhere
LocalAccounts == {"acc1", "acc2"}
ExternalAccount == "ext9"
UnknownAccount == "acc0"
AccountOwner == [a \in LocalAccounts |-> IF a = "acc1" THEN "cli1" ELSE "cli2"]
Procs == {1, 2}

NoneId == [k |-> "none", n |-> 0]
PcrId(i) == [k |-> "pcr", n |-> i]
PconId(i) == [k |-> "pcon", n |-> i]
ReqId(i) == [k |-> "req", n |-> i]
ConsentId(i) == [k |-> "consent", n |-> i]
IntId(i) == [k |-> "int", n |-> i]

ClientToken(c) == [type |-> "client", sub |-> c]
TeamToken(b) == [type |-> "team", sub |-> b]
BankerToken == [type |-> "banker", sub |-> "banker"]
NoToken == [type |-> "none", sub |-> None]

Tokens == {ClientToken(c) : c \in Clients} \cup {TeamToken(b) : b \in Banks} \cup {BankerToken}

VARIABLES
    now,               \* datetime.utcnow(), in model ticks
    bank_settings,     \* BankSettings rows: key -> value, None when the row is absent
    consent_requests,  \* ConsentRequest table
    consents,          \* Consent table
    notifications,     \* Notification table
    payment_consent_requests,  \* PaymentConsentRequest table
    payment_consents,  \* PaymentConsent table
    accounts,          \* Account table, by account number
    transactions,      \* Transaction table
    payments,          \* Payment table
    bank_capital,      \* BankCapital.capital
    interbank_transfers, \* InterbankTransfer table
    calls,             \* the create_payment requests in flight, by worker
    vrp_consents,      \* VRPConsent table
    vrp_payments,      \* VRPPayment table
    agreements,        \* ProductAgreement table
    total_loans,       \* BankCapital.total_loans
    sessions,          \* the database sessions of the requests in flight, by worker
    history,           \* Transaction.transaction_date of the rows of the account being paged
    pager              \* the pages of that account a caller has fetched so far

registryVars == <<consent_requests, consents>>
paymentConsentVars == <<payment_consent_requests, payment_consents>>
ledgerVars == <<accounts, transactions, payments, bank_capital, interbank_transfers>>
vrpVars == <<vrp_consents, vrp_payments>>
productVars == <<agreements, total_loans>>
pagingVars == <<history, pager>>
vars == <<now, bank_settings, notifications, registryVars, paymentConsentVars, ledgerVars, calls, vrpVars, productVars, sessions, pagingVars>>

\* ------------------------------------------------------- auth dependencies
\* services/auth_service.py is not part of the sources; the dependencies are
\* modelled by the token class each one admits.
require_client(token) == token.type = "client"
require_bank(token) == token.type = "team"
require_banker(token) == token.type = "banker"
require_any_token(token) == token \in Tokens

\* ---------------------------------------------------------- ConsentService
NoConsent == [kind |-> "none", row |-> 0]
MultipleResultsFound == [kind |-> "error", row |-> 0]
Found(i) == [kind |-> "consent", row |-> i]

\* select(Consent).where(client_id, granted_to, status == "active", expiration > utcnow())
ActiveConsentRows_NoExpiry(client, requesting_bank) ==
    {i \in DOMAIN consents :
        /\ consents[i].client_id = client
        /\ consents[i].granted_to = requesting_bank
        /\ consents[i].status = "active"}

ActiveConsentRows(client, requesting_bank) ==
    {i \in DOMAIN consents :
        /\ consents[i].client_id = client
        /\ consents[i].granted_to = requesting_bank
        /\ consents[i].status = "active"
        /\ consents[i].expiration_date_time > now}

\* check_consent as it would be if Consent.request_id held the request's
\* external id (a string) instead of the integer key of the request row
check_consent_RequestIdAccepted(client_person_id, requesting_bank, permissions, consent_id) ==
    IF client_person_id \notin Clients THEN NoConsent
    ELSE LET rows == ActiveConsentRows(client_person_id, requesting_bank) IN
         IF Cardinality(rows) > 1 THEN MultipleResultsFound
         ELSE IF rows = {} THEN NoConsent
         ELSE LET i == CHOOSE r \in rows : TRUE
                  consent == consents[i]
              IN  IF /\ consent_id # NoneId
                     /\ consent.consent_id # consent_id
                     /\ ReqId(consent.request_id.n) # consent_id
                  THEN NoConsent
                  ELSE IF ~(permissions \subseteq consent.permissions) THEN NoConsent
                  ELSE Found(i)

\* The value check_consent returns (or the exception scalar_one_or_none raises).
check_consent(client_person_id, requesting_bank, permissions, consent_id) ==
    IF client_person_id \notin Clients THEN NoConsent
    ELSE LET rows == ActiveConsentRows(client_person_id, requesting_bank) IN
         IF Cardinality(rows) > 1 THEN MultipleResultsFound
         ELSE IF rows = {} THEN NoConsent
         ELSE LET i == CHOOSE r \in rows : TRUE
                  consent == consents[i]
              IN  IF /\ consent_id # NoneId
                     /\ consent.consent_id # consent_id
                     /\ consent.request_id # consent_id
                  THEN NoConsent
                  ELSE IF ~(permissions \subseteq consent.permissions) THEN NoConsent
                  ELSE Found(i)

\* the commit as it would be if the check also touched the status-update time
check_consent_commit_TouchesStatusTime(res) ==
    consents' = IF res.kind = "consent"
                THEN [consents EXCEPT ![res.row].last_accessed_at = now,
                                      ![res.row].status_update_date_time = now + 1]
                ELSE consents

\* consent.last_accessed_at = utcnow(); commit
check_consent_commit(res) ==
    consents' = IF res.kind = "consent"
                THEN [consents EXCEPT ![res.row].last_accessed_at = now]
                ELSE consents

NewConsent(request_row, client, bank, permissions) ==
    [consent_id |-> ConsentId(Len(consents) + 1),
     request_id |-> IntId(request_row),
     client_id |-> client,
     granted_to |-> bank,
     permissions |-> permissions,
     status |-> "active",
     expiration_date_time |-> now + ConsentTTL,
     status_update_date_time |-> now,
     revoked_at |-> NoTime,
     last_accessed_at |-> NoTime]

\* auto_approve_setting and auto_approve_setting.value.lower() == "true"
auto_approve_consents == bank_settings["auto_approve_consents"] = "true"

\* create_consent_request without the notification of the manual branch
create_consent_request_NoNotification(client, requesting_bank, permissions) ==
    LET n == Len(consent_requests) + 1
        request == [request_id |-> ReqId(n), client_id |-> client,
                    requesting_bank |-> requesting_bank, permissions |-> permissions,
                    status |-> IF auto_approve_consents THEN "approved" ELSE "pending"]
    IN  /\ consent_requests' = Append(consent_requests, request)
        /\ IF auto_approve_consents
           THEN /\ consents' = Append(consents, NewConsent(n, client, requesting_bank, permissions))
                /\ UNCHANGED notifications
           ELSE UNCHANGED <<notifications, consents>>

\* ConsentService.create_consent_request, for a client that exists
create_consent_request(client, requesting_bank, permissions) ==
    LET n == Len(consent_requests) + 1
        request == [request_id |-> ReqId(n), client_id |-> client,
                    requesting_bank |-> requesting_bank, permissions |-> permissions,
                    status |-> IF auto_approve_consents THEN "approved" ELSE "pending"]
    IN  /\ consent_requests' = Append(consent_requests, request)
        /\ IF auto_approve_consents
           THEN /\ consents' = Append(consents, NewConsent(n, client, requesting_bank, permissions))
                /\ UNCHANGED notifications
           ELSE /\ notifications' = Append(notifications,
                       [client_id |-> client, notification_type |-> "consent_request",
                        related_id |-> ReqId(n), status |-> "unread"])
                /\ UNCHANGED consents

\* select(ConsentRequest).where(request_id, client_id, status == "pending")
PendingRequestRows(request_id, client) ==
    {i \in DOMAIN consent_requests :
        /\ consent_requests[i].request_id = request_id
        /\ consent_requests[i].client_id = client
        /\ consent_requests[i].status = "pending"}

\* The approve and reject branches shared by sign_consent and authorize_consent_by_id
RespondToRequest(i, action) ==
    IF action = "approve"
    THEN /\ consents' = Append(consents, NewConsent(i, consent_requests[i].client_id,
                                   consent_requests[i].requesting_bank,
                                   consent_requests[i].permissions))
         /\ consent_requests' = [consent_requests EXCEPT ![i].status = "approved"]
    ELSE /\ consent_requests' = [consent_requests EXCEPT ![i].status = "rejected"]
         /\ UNCHANGED consents

\* select(Consent).where(consent_id, client_id, status == "active")
RevocableRows(consent_id, client) ==
    {i \in DOMAIN consents :
        /\ consents[i].consent_id = consent_id
        /\ consents[i].client_id = client
        /\ consents[i].status = "active"}


\* ------------------------------------------------------------------- time
Tick ==
    /\ now < MaxTime
    /\ now' = now + 1
    /\ UNCHANGED <<pagingVars, vrpVars, productVars, sessions, bank_settings, notifications, registryVars, paymentConsentVars, ledgerVars, calls>>

\* ------------------------------------------------- api/consents.py handlers
\* Each handler is a response operator (the status the caller gets, and the row
\* the handler works on) and an action that applies the handler's writes.  A
\* call that is refused writes nothing: it is a stuttering step, which every
\* specification below allows, so the actions are the calls that write.
Resp(code, row) == [code |-> code, row |-> row]

RequestIds == {ReqId(i) : i \in 1..MaxRequests}
ConsentIds == {ConsentId(i) : i \in 1..MaxRequests}

\* No code tells one client from another, or one bank from another: up to
\* renaming, the first request of a run names cli1 and team1.
FirstRequestCanonical(client, bank) ==
    Len(consent_requests) = 0 => (client \in {"cli1", UnknownClient} /\ bank = "team1")

\* POST /account-consents/request: no token dependency at all
request_consent_response(body_client_id) ==
    IF body_client_id \notin Clients THEN Resp("404", 0)
    ELSE IF auto_approve_consents THEN Resp("approved", Len(consent_requests) + 1)
    ELSE Resp("pending", Len(consent_requests) + 1)

request_consent ==
    \E body_client_id \in Clients \cup {UnknownClient},
       x_requesting_bank \in Banks \cup {None},
       body_requesting_bank \in Banks,
       permissions \in PermissionLists :
        LET requesting_bank == IF x_requesting_bank # None THEN x_requesting_bank
                               ELSE body_requesting_bank
        IN  /\ Len(consent_requests) < MaxRequests
            /\ FirstRequestCanonical(body_client_id, requesting_bank)
            /\ request_consent_response(body_client_id).code # "404"
            /\ create_consent_request(body_client_id, requesting_bank, permissions)
            /\ UNCHANGED <<pagingVars, vrpVars, productVars, sessions, now, bank_settings, paymentConsentVars, ledgerVars, calls>>

\* ConsentService.sign_consent behind POST /account-consents/sign
sign_consent_response(token, request_id, action) ==
    IF ~require_client(token) THEN Resp("401", 0)
    ELSE LET rows == PendingRequestRows(request_id, token.sub) IN
         IF rows = {} THEN Resp("404", 0)
         ELSE Resp(IF action = "approve" THEN "approved" ELSE "rejected",
                   CHOOSE r \in rows : TRUE)

sign_consent ==
    \E token \in Tokens, request_id \in RequestIds, action \in {"approve", "reject"} :
        LET resp == sign_consent_response(token, request_id, action) IN
        /\ resp.row # 0
        /\ RespondToRequest(resp.row, action)
        /\ UNCHANGED <<pagingVars, vrpVars, productVars, sessions, now, bank_settings, notifications, paymentConsentVars, ledgerVars, calls>>

\* ConsentService.authorize_consent_by_id behind POST /account-consents/{id}/authorize
authorize_consent_response(token, consent_id, action) ==
    IF ~require_client(token) THEN Resp("401", 0)
    ELSE LET rows == PendingRequestRows(consent_id, token.sub) IN
         IF rows = {} THEN Resp("404", 0)
         ELSE Resp(IF action = "approve" THEN "Authorized" ELSE "Rejected",
                   CHOOSE r \in rows : TRUE)

authorize_consent ==
    \E token \in Tokens, consent_id \in RequestIds, action \in {"approve", "reject"} :
        LET resp == authorize_consent_response(token, consent_id, action) IN
        /\ resp.row # 0
        /\ RespondToRequest(resp.row, action)
        /\ UNCHANGED <<pagingVars, vrpVars, productVars, sessions, now, bank_settings, notifications, paymentConsentVars, ledgerVars, calls>>

\* ConsentService.revoke_consent behind DELETE /account-consents/my-consents/{id}
revoke_consent_response(token, consent_id) ==
    IF ~require_client(token) THEN Resp("401", 0)
    ELSE LET rows == RevocableRows(consent_id, token.sub) IN
         IF rows = {} THEN Resp("404", 0)
         ELSE Resp("Revoked", CHOOSE r \in rows : TRUE)

revoke_consent ==
    \E token \in Tokens, consent_id \in ConsentIds :
        LET resp == revoke_consent_response(token, consent_id) IN
        /\ resp.row # 0
        /\ consents' = [consents EXCEPT ![resp.row].status = "Revoked",
                                          ![resp.row].status_update_date_time = now,
                                          ![resp.row].revoked_at = now]
        /\ UNCHANGED <<pagingVars, vrpVars, productVars, sessions, now, bank_settings, consent_requests, notifications, paymentConsentVars, ledgerVars, calls>>

\* DELETE /account-consents/{consent_id}, behind require_bank
delete_account_access_consents_consent_id_response(token, consent_id) ==
    IF ~require_bank(token) THEN Resp("401", 0)
    ELSE LET rows == {i \in DOMAIN consents : consents[i].consent_id = consent_id} IN
         IF rows = {} THEN Resp("404", 0)
         ELSE Resp("204", CHOOSE r \in rows : TRUE)

delete_account_access_consents_consent_id ==
    \E token \in Tokens, consent_id \in ConsentIds :
        LET resp == delete_account_access_consents_consent_id_response(token, consent_id) IN
        /\ resp.row # 0
        /\ consents' = [consents EXCEPT ![resp.row].status = "Revoked",
                                          ![resp.row].status_update_date_time = now]
        /\ UNCHANGED <<pagingVars, vrpVars, productVars, sessions, now, bank_settings, consent_requests, notifications, paymentConsentVars, ledgerVars, calls>>

\* GET /account-consents/{consent_id}, behind require_bank: the stored status
\* through status_mapping, or AwaitingAuthorization for a request id
get_account_access_consents_consent_id_response(token, consent_id) ==
    IF ~require_bank(token) THEN Resp("401", 0)
    ELSE LET rows == {i \in DOMAIN consents : consents[i].consent_id = consent_id} IN
         IF rows # {}
         THEN LET i == CHOOSE r \in rows : TRUE IN
              Resp(CASE consents[i].status = "active" -> "Authorized"
                     [] consents[i].status = "Revoked" -> "Revoked"
                     [] consents[i].status = "expired" -> "Expired"
                     [] consents[i].status = "rejected" -> "Rejected"
                     [] OTHER -> "Authorized", i)
         ELSE IF \E k \in DOMAIN consent_requests : consent_requests[k].request_id = consent_id
         THEN Resp("AwaitingAuthorization", 0)
         ELSE Resp("404", 0)

\* ConsentService.check_consent as every resource handler calls it
ConsentIdHeaders == {NoneId} \cup ConsentIds \cup RequestIds

call_check_consent ==
    \E client_person_id \in Clients \cup {UnknownClient}, requesting_bank \in Banks,
       permissions \in RequiredPermissions, consent_id \in ConsentIdHeaders :
        LET res == check_consent(client_person_id, requesting_bank, permissions, consent_id) IN
        /\ res.kind = "consent"
        /\ check_consent_commit(res)
        /\ UNCHANGED <<pagingVars, vrpVars, productVars, sessions, now, bank_settings, consent_requests, notifications, paymentConsentVars, ledgerVars, calls>>

\* ------------------------------------------------- api/accounts.py handlers
AccountIds == LocalAccounts \cup {UnknownAccount}
BankHeaders == Banks \cup {None}

\* The check_consent call a read makes, and what the handler does with its result
consent_gate(client_person_id, x_requesting_bank, permissions, x_consent_id) ==
    LET res == check_consent(client_person_id, x_requesting_bank, permissions, x_consent_id) IN
    IF res.kind = "error" THEN Resp("500", 0)
    ELSE IF res.kind = "none" THEN Resp("CONSENT_REQUIRED", 0)
    ELSE Resp("200", res.row)

\* GET /accounts
get_accounts_response(token, client_id, x_requesting_bank, x_consent_id) ==
    IF ~require_any_token(token) THEN Resp("401", 0)
    ELSE IF x_requesting_bank # None
         THEN IF client_id = None THEN Resp("400", 0)
              ELSE consent_gate(client_id, x_requesting_bank, {"ReadAccountsDetail"}, x_consent_id)
         ELSE IF token.type # "client" THEN Resp("401", 0)
              ELSE Resp("200", 0)

\* GET /accounts/{account_id}, /balances and /transactions: the consent check
\* is made only when the header is present and the token is not a client's
account_read_response(token, account_id, x_requesting_bank, x_consent_id, permissions) ==
    IF ~require_any_token(token) THEN Resp("401", 0)
    ELSE IF account_id \notin DOMAIN accounts THEN Resp("404", 0)
    ELSE IF x_requesting_bank # None /\ token.type # "client"
         THEN consent_gate(accounts[account_id].client_id, x_requesting_bank,
                           permissions, x_consent_id)
         ELSE Resp("200", 0)

get_account_response(token, account_id, x_requesting_bank, x_consent_id) ==
    account_read_response(token, account_id, x_requesting_bank, x_consent_id,
                          {"ReadAccountsDetail"})

get_balances_response(token, account_id, x_requesting_bank, x_consent_id) ==
    account_read_response(token, account_id, x_requesting_bank, x_consent_id,
                          {"ReadBalances"})

\* the access decision of get_transactions
get_transactions_response(token, account_id, x_requesting_bank, x_consent_id) ==
    account_read_response(token, account_id, x_requesting_bank, x_consent_id,
                          {"ReadTransactionsDetail"})

\* A read writes only through check_consent (last_accessed_at): the actions are
\* the reads that a consent allowed.
get_accounts ==
    \E token \in Tokens, client_id \in Clients \cup {UnknownClient, None},
       x_requesting_bank \in BankHeaders, x_consent_id \in ConsentIdHeaders :
        LET resp == get_accounts_response(token, client_id, x_requesting_bank, x_consent_id) IN
        /\ resp.code = "200"
        /\ resp.row # 0
        /\ check_consent_commit(Found(resp.row))
        /\ UNCHANGED <<pagingVars, vrpVars, productVars, sessions, now, bank_settings, consent_requests, notifications, paymentConsentVars, ledgerVars, calls>>

get_account ==
    \E token \in Tokens, account_id \in AccountIds,
       x_requesting_bank \in BankHeaders, x_consent_id \in ConsentIdHeaders :
        LET resp == get_account_response(token, account_id, x_requesting_bank, x_consent_id) IN
        /\ resp.code = "200"
        /\ resp.row # 0
        /\ check_consent_commit(Found(resp.row))
        /\ UNCHANGED <<pagingVars, vrpVars, productVars, sessions, now, bank_settings, consent_requests, notifications, paymentConsentVars, ledgerVars, calls>>

get_balances ==
    \E token \in Tokens, account_id \in AccountIds,
       x_requesting_bank \in BankHeaders, x_consent_id \in ConsentIdHeaders :
        LET resp == get_balances_response(token, account_id, x_requesting_bank, x_consent_id) IN
        /\ resp.code = "200"
        /\ resp.row # 0
        /\ check_consent_commit(Found(resp.row))
        /\ UNCHANGED <<pagingVars, vrpVars, productVars, sessions, now, bank_settings, consent_requests, notifications, paymentConsentVars, ledgerVars, calls>>

get_transactions ==
    \E token \in Tokens, account_id \in AccountIds,
       x_requesting_bank \in BankHeaders, x_consent_id \in ConsentIdHeaders :
        LET resp == get_transactions_response(token, account_id, x_requesting_bank, x_consent_id) IN
        /\ resp.code = "200"
        /\ resp.row # 0
        /\ check_consent_commit(Found(resp.row))
        /\ UNCHANGED <<pagingVars, vrpVars, productVars, sessions, now, bank_settings, consent_requests, notifications, paymentConsentVars, ledgerVars, calls>>

\* ---------------------------------------------- api/payment_consents.py
PaymentRequestIds == {PcrId(i) : i \in 1..MaxPaymentRequests}
PaymentConsentIds == {PconId(i) : i \in 1..MaxPaymentRequests}
\* creditors named in request bodies: an account of this bank and one of another
CreditorAccounts == {"acc2", ExternalAccount}

\* auto_approve_setting and value.lower() == "true"; True when the row is absent
auto_approve_payment_consents ==
    \/ bank_settings["auto_approve_payment_consents"] = None
    \/ bank_settings["auto_approve_payment_consents"] = "true"

\* PaymentConsent(...) as both the auto-approval and the banker's approval build it
NewPaymentConsent(request_row, r) ==
    [consent_id |-> PconId(Len(payment_consents) + 1),
     request_id |-> IntId(request_row),
     client_id |-> r.client_id,
     granted_to |-> r.requesting_bank,
     amount |-> r.amount,
     currency |-> r.currency,
     debtor_account |-> r.debtor_account,
     creditor_account |-> r.creditor_account,
     status |-> "active",
     expiration_date_time |-> now + PaymentConsentTTL,
     used_at |-> NoTime,
     revoked_at |-> NoTime]

\* Up to renaming of clients, banks and their accounts, the first payment
\* consent request of a run names cli1 and team1.
FirstPaymentRequestCanonical(client, bank) ==
    Len(payment_consent_requests) = 0 => (client = "cli1" /\ bank = "team1")

\* the debtor accounts consent requests name: the client's own
OwnAccounts(client_id) == {a \in LocalAccounts : AccountOwner[a] = client_id}

\* POST /payment-consents/request
create_payment_consent_request_response(token, x_requesting_bank, client_id) ==
    IF ~require_client(token) THEN Resp("401", 0)
    ELSE IF x_requesting_bank = None THEN Resp("400", 0)
    ELSE IF client_id = None THEN Resp("400", 0)
    ELSE IF client_id \notin Clients THEN Resp("404", 0)
    ELSE Resp(IF auto_approve_payment_consents THEN "approved" ELSE "pending",
              Len(payment_consent_requests) + 1)

create_payment_consent_request ==
    \E token \in Tokens, x_requesting_bank \in BankHeaders,
       client_id \in Clients \cup {UnknownClient, None},
       amount \in Amounts, currency \in Currencies, creditor_account \in CreditorAccounts :
      \E debtor_account \in OwnAccounts(client_id) :
        LET resp == create_payment_consent_request_response(token, x_requesting_bank, client_id)
            r == [request_id |-> PcrId(resp.row), client_id |-> client_id,
                  requesting_bank |-> x_requesting_bank, amount |-> amount,
                  currency |-> currency, debtor_account |-> debtor_account,
                  creditor_account |-> creditor_account,
                  status |-> IF auto_approve_payment_consents THEN "approved" ELSE "pending"]
        IN  /\ Len(payment_consent_requests) < MaxPaymentRequests
            /\ resp.row # 0
            /\ FirstPaymentRequestCanonical(client_id, x_requesting_bank)
            /\ payment_consent_requests' = Append(payment_consent_requests, r)
            /\ IF auto_approve_payment_consents
               THEN /\ payment_consents' = Append(payment_consents, NewPaymentConsent(resp.row, r))
                    /\ UNCHANGED notifications
               ELSE /\ notifications' = Append(notifications,
                           [client_id |-> client_id,
                            notification_type |-> "payment_consent_request",
                            related_id |-> PcrId(resp.row), status |-> "unread"])
                    /\ UNCHANGED payment_consents
            /\ UNCHANGED <<pagingVars, vrpVars, productVars, sessions, now, bank_settings, registryVars, ledgerVars, calls>>

\* DELETE /payment-consents/{consent_id}: any client token, any status
revoke_payment_consent_response(token, consent_id) ==
    IF ~require_client(token) THEN Resp("401", 0)
    ELSE LET rows == {i \in DOMAIN payment_consents :
                         payment_consents[i].consent_id = consent_id} IN
         IF rows = {} THEN Resp("404", 0)
         ELSE Resp("204", CHOOSE r \in rows : TRUE)

revoke_payment_consent ==
    \E token \in Tokens, consent_id \in PaymentConsentIds :
        LET resp == revoke_payment_consent_response(token, consent_id) IN
        /\ resp.row # 0
        /\ payment_consents' = [payment_consents EXCEPT ![resp.row].status = "revoked",
                                                        ![resp.row].revoked_at = now]
        /\ UNCHANGED <<pagingVars, vrpVars, productVars, sessions, now, bank_settings, notifications, registryVars,
                       payment_consent_requests, ledgerVars, calls>>

\* select(PaymentConsentRequest).where(request_id); 404 if none, 400 unless pending
banker_response(token, request_id, done) ==
    IF ~require_banker(token) THEN Resp("401", 0)
    ELSE LET rows == {i \in DOMAIN payment_consent_requests :
                         payment_consent_requests[i].request_id = request_id} IN
         IF rows = {} THEN Resp("404", 0)
         ELSE LET i == CHOOSE r \in rows : TRUE IN
              IF payment_consent_requests[i].status # "pending" THEN Resp("400", 0)
              ELSE Resp(done, i)

\* POST /payment-consents/{request_id}/approve
approve_payment_consent_response(token, request_id) ==
    banker_response(token, request_id, "approved")

approve_payment_consent ==
    \E token \in Tokens, request_id \in PaymentRequestIds :
        LET resp == approve_payment_consent_response(token, request_id) IN
        /\ resp.row # 0
        /\ payment_consents' = Append(payment_consents,
               NewPaymentConsent(resp.row, payment_consent_requests[resp.row]))
        /\ payment_consent_requests' =
               [payment_consent_requests EXCEPT ![resp.row].status = "approved"]
        /\ UNCHANGED <<pagingVars, vrpVars, productVars, sessions, now, bank_settings, notifications, registryVars, ledgerVars, calls>>

\* POST /payment-consents/{request_id}/reject
reject_payment_consent_response(token, request_id) ==
    banker_response(token, request_id, "rejected")

reject_payment_consent ==
    \E token \in Tokens, request_id \in PaymentRequestIds :
        LET resp == reject_payment_consent_response(token, request_id) IN
        /\ resp.row # 0
        /\ payment_consent_requests' =
               [payment_consent_requests EXCEPT ![resp.row].status = "rejected"]
        /\ UNCHANGED <<pagingVars, vrpVars, productVars, sessions, now, bank_settings, notifications, registryVars,
                       payment_consents, ledgerVars, calls>>

\* ------------------------------------------- services/payment_service.py
\* The payment service is not among the sources.  PaymentService.initiate_payment
\* is modelled on the initiation contract: resolve the source, resolve the
\* target, balance gate, apply in one transaction.  The call create_payment
\* makes hands it account numbers, an amount and the consent id to store, and
\* neither the caller's token nor the requesting bank: the consent gate of the
\* contract is what create_payment does around the call.
IsLocal(account_number) ==
    /\ account_number \in DOMAIN accounts
    /\ accounts[account_number].status = "active"

\* the ValueError initiate_payment raises, None when it raises none
initiate_payment_error(from_account_number, amount) ==
    IF ~IsLocal(from_account_number) THEN "SOURCE_NOT_FOUND"
    ELSE IF accounts[from_account_number].balance < amount THEN "INSUFFICIENT_FUNDS"
    ELSE None

initiate_payment(from_account_number, to_account_number, amount, payment_consent_id) ==
    LET n == Len(payments) + 1
        debit == [account |-> from_account_number, amount |-> amount,
                  direction |-> "debit", payment |-> n]
        credit == [account |-> to_account_number, amount |-> amount,
                   direction |-> "credit", payment |-> n]
    IN  /\ payments' = Append(payments,
               [payment_id |-> n, payment_consent_id |-> payment_consent_id,
                from_account |-> from_account_number, to_account |-> to_account_number,
                amount |-> amount, currency |-> accounts[from_account_number].currency,
                status |-> "completed"])
        /\ accounts' = [a \in DOMAIN accounts |->
               [accounts[a] EXCEPT !.balance =
                   @ - (IF a = from_account_number THEN amount ELSE 0)
                     + (IF a = to_account_number THEN amount ELSE 0)]]
        /\ IF IsLocal(to_account_number)
           THEN /\ transactions' = transactions \o <<debit, credit>>
                /\ UNCHANGED <<bank_capital, interbank_transfers>>
           ELSE /\ transactions' = Append(transactions, debit)
                /\ bank_capital' = bank_capital - amount
                /\ interbank_transfers' = Append(interbank_transfers,
                       [payment |-> n, amount |-> amount, status |-> "completed"])

\* ------------------------------------------------ api/payments.py handlers
\* create_payment reads the name current_client, which payments.py neither
\* defines nor imports: the read raises NameError unless something outside
\* the sources binds the name.  current_client_bound tells the two cases apart.
\*
\* The consent gate, for a request with x-requesting-bank; the row is the
\* consent the request passed under.
create_payment_gate(current_client_bound, token, x_requesting_bank, x_payment_consent_id) ==
    IF ~require_any_token(token) THEN Resp("401", 0)
    ELSE IF ~current_client_bound THEN Resp("500", 0)
    ELSE IF x_requesting_bank = None THEN Resp("pass", 0)
    ELSE IF x_payment_consent_id = NoneId THEN Resp("PAYMENT_CONSENT_REQUIRED", 0)
    ELSE LET rows == {i \in DOMAIN payment_consents :
                         /\ payment_consents[i].consent_id = x_payment_consent_id
                         /\ payment_consents[i].status = "active"
                         /\ payment_consents[i].expiration_date_time > now} IN
         IF rows = {} THEN Resp("INVALID_CONSENT", 0)
         ELSE LET i == CHOOSE r \in rows : TRUE IN
              IF payment_consents[i].granted_to # x_requesting_bank
              THEN Resp("CONSENT_MISMATCH", 0)
              ELSE Resp("pass", i)

payment_consent_id_to_store(x_requesting_bank, x_payment_consent_id) ==
    IF x_requesting_bank # None THEN x_payment_consent_id ELSE NoneId

\* What one create_payment answers when no other request runs beside it
create_payment_response(current_client_bound, token, x_requesting_bank, x_payment_consent_id, debtor_account, creditor_account, amount) ==
    LET gate == create_payment_gate(current_client_bound, token, x_requesting_bank,
                                    x_payment_consent_id) IN
    IF gate.code # "pass" THEN gate
    ELSE IF initiate_payment_error(debtor_account, amount) # None THEN Resp("400", 0)
    ELSE Resp("201", gate.row)

PaymentConsentIdHeaders == {NoneId} \cup PaymentConsentIds
\* a worker that serves no create_payment request
Idle == [pc |-> "idle", stored |-> NoneId, payment |-> 0]
InFlight == {p \in Procs : calls[p].pc # "idle"}

\* A request is served by the lowest free worker; the handler runs up to the
\* end of its consent gate.
create_payment_check_consent(p) ==
    /\ calls[p].pc = "idle"
    /\ \A q \in Procs : q < p => calls[q].pc # "idle"
    /\ Len(payments) + Cardinality(InFlight) < MaxPayments
    /\ \E current_client_bound \in BOOLEAN, token \in Tokens,
          x_requesting_bank \in BankHeaders,
          x_payment_consent_id \in PaymentConsentIdHeaders :
        /\ create_payment_gate(current_client_bound, token, x_requesting_bank,
                               x_payment_consent_id).code = "pass"
        /\ calls' = [calls EXCEPT ![p] =
               [pc |-> "gate_passed",
                stored |-> payment_consent_id_to_store(x_requesting_bank, x_payment_consent_id),
                payment |-> 0]]
    /\ UNCHANGED <<pagingVars, vrpVars, productVars, sessions, now, bank_settings, notifications, registryVars, paymentConsentVars, ledgerVars>>

\* The request body is read and PaymentService.initiate_payment commits, or
\* raises ValueError and the handler answers 400.
create_payment_initiate(p) ==
    /\ calls[p].pc = "gate_passed"
    /\ \E debtor_account \in AccountIds, creditor_account \in CreditorAccounts,
          amount \in Amounts :
        IF initiate_payment_error(debtor_account, amount) # None
        THEN /\ calls' = [calls EXCEPT ![p] = Idle]
             /\ UNCHANGED ledgerVars
        ELSE /\ initiate_payment(debtor_account, creditor_account, amount, calls[p].stored)
             /\ calls' = [calls EXCEPT ![p].pc = "initiated", ![p].payment = Len(payments) + 1]
    /\ UNCHANGED <<pagingVars, vrpVars, productVars, sessions, now, bank_settings, notifications, registryVars, paymentConsentVars>>

\* if payment_consent_id_to_store: the consent is selected by id alone, marked
\* 'used' and committed; then the handler answers 201.
create_payment_mark_used(p) ==
    /\ calls[p].pc = "initiated"
    /\ payment_consents' =
           [i \in DOMAIN payment_consents |->
               IF calls[p].stored # NoneId /\ payment_consents[i].consent_id = calls[p].stored
               THEN [payment_consents[i] EXCEPT !.status = "used", !.used_at = now]
               ELSE payment_consents[i]]
    /\ calls' = [calls EXCEPT ![p] = Idle]
    /\ UNCHANGED <<pagingVars, vrpVars, productVars, sessions, now, bank_settings, notifications, registryVars,
                   payment_consent_requests, ledgerVars>>

\* ------------------------------------------------- database sessions
\* A handler reads rows into its own session and writes them back at commit:
\* `row.balance -= amount` computes the new value from the value the session
\* read, and the commit stores that value.
NoSession ==
    [pc |-> "idle", consent |-> 0, account |-> None, balance |-> 0, amount |-> 0,
     product_type |-> None, client |-> None, capital |-> 0, total_loans |-> 0,
     action |-> None, agreement |-> 0]
Busy == {p \in Procs : sessions[p].pc # "idle"}

\* a request is served by the lowest free worker
FreeWorker(p) ==
    /\ sessions[p].pc = "idle"
    /\ \A q \in Procs : q < p => sessions[q].pc # "idle"

\* ConsentService.sign_consent as two requests run it side by side: the select
\* of the pending request (no lock is taken), and later the commit of what the
\* session decided on the row it read.
sign_consent_select(p) ==
    /\ FreeWorker(p)
    /\ \E token \in Tokens, request_id \in RequestIds, action \in {"approve", "reject"} :
          LET resp == sign_consent_response(token, request_id, action) IN
          /\ resp.row # 0
          /\ sessions' = [sessions EXCEPT ![p] =
                 [NoSession EXCEPT !.pc = "sign_consent", !.consent = resp.row,
                                   !.action = action]]
    /\ UNCHANGED <<pagingVars, now, bank_settings, notifications, registryVars, paymentConsentVars, ledgerVars, calls, vrpVars, productVars>>

sign_consent_commit(p) ==
    /\ sessions[p].pc = "sign_consent"
    /\ RespondToRequest(sessions[p].consent, sessions[p].action)
    /\ sessions' = [sessions EXCEPT ![p] = NoSession]
    /\ UNCHANGED <<pagingVars, now, bank_settings, notifications, paymentConsentVars, ledgerVars, calls, vrpVars, productVars>>

\* a Transaction row that belongs to no Payment row
Tx(account, amount, direction) ==
    [account |-> account, amount |-> amount, direction |-> direction, payment |-> 0]

\* --------------------------------------------------- api/vrp_consents.py
VrpId(n) == [k |-> "vrp", n |-> n]
VrpConsentIds == {VrpId(n) : n \in 0..MaxVrpConsents}
\* a NULL Numeric or Integer column
NoLimit == -1

\* POST /vrp-consents: the account must be the caller's own
create_vrp_consent_response(token, account_id) ==
    IF ~require_client(token) THEN Resp("401", 0)
    ELSE IF token.sub \notin Clients THEN Resp("404", 0)
    ELSE IF account_id \notin DOMAIN accounts \/ accounts[account_id].client_id # token.sub
         THEN Resp("404", 0)
    ELSE Resp("201", Len(vrp_consents) + 1)

\* Up to renaming of the clients and their accounts, the first VRP consent of
\* a run is cli1's.
FirstVrpConsentCanonical(client) == Len(vrp_consents) = 0 => client = "cli1"

create_vrp_consent ==
    /\ Len(vrp_consents) < MaxVrpConsents
    /\ \E c \in Clients :
        /\ FirstVrpConsentCanonical(c)
        /\ \E account_id \in DOMAIN accounts, max_individual_amount \in 0..MaxAmount,
              max_amount_period \in {NoLimit, 1}, max_payments_count \in {NoLimit, 1},
              valid_days \in 0..MaxValidDays :
            /\ create_vrp_consent_response(ClientToken(c), account_id).code = "201"
            /\ vrp_consents' = Append(vrp_consents,
                   [consent_id |-> VrpId(Len(vrp_consents) + 1),
                    client_id |-> c,
                    account_id |-> account_id,
                    status |-> "Authorised",
                    max_individual_amount |-> max_individual_amount,
                    max_amount_period |-> max_amount_period,
                    max_payments_count |-> max_payments_count,
                    valid_from |-> now,
                    valid_to |-> now + valid_days,
                    revoked_at |-> NoTime])
    /\ UNCHANGED <<pagingVars, now, bank_settings, notifications, registryVars, paymentConsentVars, ledgerVars, calls, vrp_payments, productVars, sessions>>

VrpConsentRows(consent_id) == {i \in DOMAIN vrp_consents : vrp_consents[i].consent_id = consent_id}

\* DELETE /vrp-consents/{consent_id}: the caller's own consent, whatever its status
delete_vrp_consent_response(token, consent_id) ==
    IF ~require_client(token) THEN Resp("401", 0)
    ELSE IF token.sub \notin Clients THEN Resp("404", 0)
    ELSE LET rows == {i \in VrpConsentRows(consent_id) : vrp_consents[i].client_id = token.sub}
         IN  IF rows = {} THEN Resp("404", 0) ELSE Resp("200", CHOOSE i \in rows : TRUE)

delete_vrp_consent ==
    /\ \E c \in Clients, consent_id \in VrpConsentIds :
        LET res == delete_vrp_consent_response(ClientToken(c), consent_id) IN
        /\ res.code = "200"
        /\ vrp_consents' = [vrp_consents EXCEPT ![res.row].status = "Revoked",
                                                ![res.row].revoked_at = now]
    /\ UNCHANGED <<pagingVars, now, bank_settings, notifications, registryVars, paymentConsentVars, ledgerVars, calls, vrp_payments, productVars, sessions>>

\* --------------------------------------------------- api/vrp_payments.py
VrpAmounts == {-1} \cup Amounts

\* `if consent.max_individual_amount and amount > consent.max_individual_amount`:
\* a cap of 0 is falsy
exceeds_max_individual_amount(consent, amount) ==
    consent.max_individual_amount # 0 /\ amount > consent.max_individual_amount

\* POST /vrp-payments, decided on the rows the handler selected: the consent
\* by its id alone, and the consent's account
create_vrp_payment_response(token, vrp_consent_id, amount) ==
    IF ~require_client(token) THEN Resp("401", 0)
    ELSE IF VrpConsentRows(vrp_consent_id) = {} THEN Resp("404", 0)
    ELSE LET row == CHOOSE i \in VrpConsentRows(vrp_consent_id) : TRUE
             consent == vrp_consents[row]
         IN  IF consent.status # "Authorised" THEN Resp("400", row)
             ELSE IF now > consent.valid_to THEN Resp("expired", row)
             ELSE IF exceeds_max_individual_amount(consent, amount) THEN Resp("400", row)
             ELSE IF accounts[consent.account_id].balance < amount THEN Resp("400", row)
             ELSE Resp("201", row)

\* The handler selects the consent and its account and runs its checks; a
\* consent past valid_to is stored as Expired and the call answers 400.
create_vrp_payment_select(p) ==
    /\ FreeWorker(p)
    /\ \E in \in {ClientToken(c) : c \in Clients} \X VrpConsentIds \X VrpAmounts :
        LET res == create_vrp_payment_response(in[1], in[2], in[3]) IN
        \/ /\ res.code = "expired"
           /\ vrp_consents' = [vrp_consents EXCEPT ![res.row].status = "Expired"]
           /\ UNCHANGED sessions
        \/ /\ res.code = "201"
           /\ Len(vrp_payments) + Cardinality(Busy) < MaxVrpPayments
           /\ sessions' = [sessions EXCEPT ![p] =
                  [NoSession EXCEPT
                      !.pc = "vrp_payment", !.consent = res.row,
                      !.account = vrp_consents[res.row].account_id,
                      !.balance = accounts[vrp_consents[res.row].account_id].balance,
                      !.amount = in[3]]]
           /\ UNCHANGED vrp_consents
    /\ UNCHANGED <<pagingVars, now, bank_settings, notifications, registryVars, paymentConsentVars, ledgerVars, calls, vrp_payments, productVars>>

\* account.balance -= amount, the debit Transaction and the VRPPayment row,
\* in one commit
create_vrp_payment_commit(p) ==
    /\ sessions[p].pc = "vrp_payment"
    /\ accounts' = [accounts EXCEPT ![sessions[p].account].balance =
                        sessions[p].balance - sessions[p].amount]
    /\ transactions' = Append(transactions, Tx(sessions[p].account, sessions[p].amount, "debit"))
    /\ vrp_payments' = Append(vrp_payments,
           [payment_id |-> Len(vrp_payments) + 1,
            vrp_consent_id |-> vrp_consents[sessions[p].consent].consent_id,
            account_id |-> sessions[p].account,
            amount |-> sessions[p].amount,
            status |-> "AcceptedSettlementCompleted",
            executed_at |-> now])
    /\ sessions' = [sessions EXCEPT ![p] = NoSession]
    /\ UNCHANGED <<pagingVars, now, bank_settings, notifications, registryVars, paymentConsentVars, payments, bank_capital, interbank_transfers, calls, vrp_consents, productVars>>

\* ------------------------------------- api/accounts.py: account lifecycle
\* the ids the Account table hands out after the seeded rows, in order
AccountPool == <<"acc3", "acc4">>
CanCreateAccount ==
    Cardinality(DOMAIN accounts) + Cardinality({p \in Procs : sessions[p].pc = "create_agreement"})
        < Cardinality(LocalAccounts) + Len(AccountPool)
NewAccountId == AccountPool[Cardinality(DOMAIN accounts) - Cardinality(LocalAccounts) + 1]

\* db.add(Account(...)): the table with the new row
AddAccount(client_id, account_type, balance) ==
    [a \in DOMAIN accounts \cup {NewAccountId} |->
        IF a = NewAccountId
        THEN [client_id |-> client_id, balance |-> balance, currency |-> "RUB",
              status |-> "active", account_type |-> account_type]
        ELSE accounts[a]]

AccountTypes == {"checking", "savings"}
InitialBalances == {0 - (InitialCapital + 1), 0, 1}

\* who the call acts for, and the ManageAccounts consent an institution needs
manage_accounts_gate(token, client_id, x_requesting_bank, x_consent_id) ==
    IF ~require_any_token(token) THEN Resp("401", 0)
    ELSE IF token.type = "client" THEN Resp("self", 0)
    ELSE IF client_id = None THEN Resp("401", 0)
    ELSE LET res == check_consent(client_id,
                        IF x_requesting_bank = None THEN "unknown" ELSE x_requesting_bank,
                        {"ManageAccounts"}, x_consent_id)
         IN  IF res.kind = "error" THEN Resp("500", 0)
             ELSE IF res.kind = "none" THEN Resp("403", 0)
             ELSE Resp("consent", res.row)

target_client_id(token, client_id) == IF token.type = "client" THEN token.sub ELSE client_id

\* A client token makes the handlers skip the client_id parameter and both
\* headers: calls that differ only there are one call.
SelfCallCanonical(token, client_id, x_requesting_bank, x_consent_id) ==
    token.type = "client" =>
        (client_id = None /\ x_requesting_bank = None /\ x_consent_id = NoneId)

\* Up to renaming of the clients, the first account a run opens is cli1's.
FirstAccountCanonical(client) == DOMAIN accounts = LocalAccounts => client = "cli1"

\* the write check_consent made when it returned a consent
gate_commit(gate) ==
    IF gate.row # 0 THEN check_consent_commit(Found(gate.row)) ELSE UNCHANGED consents

\* POST /accounts: initial_balance is a float that no code validates
create_account_response(token, client_id, x_requesting_bank, x_consent_id, account_type) ==
    LET gate == manage_accounts_gate(token, client_id, x_requesting_bank, x_consent_id) IN
    IF gate.code \notin {"self", "consent"} THEN gate
    ELSE IF target_client_id(token, client_id) \notin Clients THEN Resp("404", 0)
    ELSE IF account_type \notin AccountTypes THEN Resp("400", 0)
    ELSE Resp("201", gate.row)

\* The account row is committed first; a positive initial balance gets its
\* credit Transaction in a second commit.
create_account(p) ==
    /\ FreeWorker(p)
    /\ CanCreateAccount
    /\ \E token \in Tokens, client_id \in Clients \cup {None}, x_requesting_bank \in BankHeaders,
          x_consent_id \in ConsentIdHeaders, account_type \in {"checking"},
          initial_balance \in InitialBalances :
        LET res == create_account_response(token, client_id, x_requesting_bank,
                                           x_consent_id, account_type) IN
        /\ SelfCallCanonical(token, client_id, x_requesting_bank, x_consent_id)
        /\ FirstAccountCanonical(target_client_id(token, client_id))
        /\ res.code = "201"
        /\ gate_commit(res)
        /\ accounts' = AddAccount(target_client_id(token, client_id), account_type,
                                  initial_balance)
        /\ sessions' = IF initial_balance > 0
                       THEN [sessions EXCEPT ![p] =
                               [NoSession EXCEPT !.pc = "create_account",
                                                 !.account = NewAccountId,
                                                 !.amount = initial_balance]]
                       ELSE sessions
    /\ UNCHANGED <<pagingVars, now, bank_settings, notifications, consent_requests, paymentConsentVars, transactions, payments, bank_capital, interbank_transfers, calls, vrpVars, productVars>>

create_account_initial_tx(p) ==
    /\ sessions[p].pc = "create_account"
    /\ transactions' = Append(transactions, Tx(sessions[p].account, sessions[p].amount, "credit"))
    /\ sessions' = [sessions EXCEPT ![p] = NoSession]
    /\ UNCHANGED <<pagingVars, now, bank_settings, notifications, registryVars, paymentConsentVars, accounts, payments, bank_capital, interbank_transfers, calls, vrpVars, productVars>>

\* PUT /accounts/{account_id}/status: no consent check at all
update_account_status_response(token, client_id, account_id, status) ==
    IF ~require_any_token(token) THEN Resp("401", 0)
    ELSE IF token.type # "client" /\ client_id = None THEN Resp("401", 0)
    ELSE IF account_id \notin DOMAIN accounts THEN Resp("404", 0)
    ELSE IF accounts[account_id].client_id # target_client_id(token, client_id) THEN Resp("403", 0)
    ELSE IF status \notin {"active", "closed"} THEN Resp("400", 0)
    ELSE Resp("200", 0)

update_account_status ==
    /\ \E token \in Tokens, client_id \in Clients \cup {None}, account_id \in DOMAIN accounts,
          status \in {"active", "closed"} :
        /\ update_account_status_response(token, client_id, account_id, status).code = "200"
        /\ SelfCallCanonical(token, client_id, None, NoneId)
        /\ accounts' = [accounts EXCEPT ![account_id].status = status]
    /\ UNCHANGED <<pagingVars, now, bank_settings, notifications, registryVars, paymentConsentVars, transactions, payments, bank_capital, interbank_transfers, calls, vrpVars, productVars, sessions>>

\* PUT /accounts/{account_id}/close
close_account_with_balance_response(token, client_id, x_requesting_bank, x_consent_id, account_id, action, destination_account_id) ==
    LET gate == manage_accounts_gate(token, client_id, x_requesting_bank, x_consent_id) IN
    IF gate.code \notin {"self", "consent"} THEN gate
    ELSE IF account_id \notin DOMAIN accounts THEN Resp("404", 0)
    ELSE IF accounts[account_id].client_id # target_client_id(token, client_id) THEN Resp("403", 0)
    ELSE IF action = "transfer"
         THEN IF destination_account_id = None THEN Resp("400", 0)
              ELSE IF \/ destination_account_id \notin DOMAIN accounts
                      \/ accounts[destination_account_id].client_id
                             # accounts[account_id].client_id
                   THEN Resp("404", 0)
              ELSE Resp("200", gate.row)
    ELSE IF action = "donate" THEN Resp("200", gate.row)
    ELSE Resp("400", 0)

\* transfer: dest_account.balance += balance, then account.balance = 0, on the
\* rows of one session; a destination that is the account itself is one row
close_account_with_balance ==
    /\ Len(transactions) < MaxTransactions
    /\ \E token \in Tokens, client_id \in Clients \cup {None}, x_requesting_bank \in BankHeaders,
          x_consent_id \in ConsentIdHeaders, account_id \in DOMAIN accounts,
          action \in {"transfer", "donate"},
          destination_account_id \in DOMAIN accounts \cup {None} :
        LET res == close_account_with_balance_response(token, client_id, x_requesting_bank,
                       x_consent_id, account_id, action, destination_account_id)
            balance == accounts[account_id].balance
        IN  /\ SelfCallCanonical(token, client_id, x_requesting_bank, x_consent_id)
            /\ action = "donate" => destination_account_id = None
            /\ res.code = "200"
            /\ gate_commit(res)
            /\ accounts' = [a \in DOMAIN accounts |->
                   IF a = account_id
                   THEN [accounts[a] EXCEPT !.balance = 0, !.status = "closed"]
                   ELSE IF action = "transfer" /\ a = destination_account_id
                   THEN [accounts[a] EXCEPT !.balance = @ + balance]
                   ELSE accounts[a]]
            /\ IF action = "transfer"
               THEN /\ transactions' = transactions \o
                          <<Tx(account_id, balance, "debit"),
                            Tx(destination_account_id, balance, "credit")>>
                    /\ UNCHANGED bank_capital
               ELSE /\ transactions' = Append(transactions, Tx(account_id, balance, "debit"))
                    /\ bank_capital' = bank_capital + balance
    /\ UNCHANGED <<pagingVars, now, bank_settings, notifications, consent_requests, paymentConsentVars, payments, interbank_transfers, calls, vrpVars, productVars, sessions>>

\* ------------------------------------------- api/product_agreements.py
\* The Product rows are seed data: one active product of each kind, the deposit
\* and the loan with a minimum amount, none with a maximum.
ProductTypes == {"deposit", "loan", "card"}
product_min_amount(product_type) == IF product_type = "card" THEN 0 ELSE 1

\* `source_account.balance < amount` on the caller's own account
source_account_error(client, source_account_id, amount) ==
    IF \/ source_account_id \notin DOMAIN accounts
       \/ accounts[source_account_id].client_id # client
    THEN "404"
    ELSE IF accounts[source_account_id].balance < amount THEN "400"
    ELSE None

\* the card is funded only `if request.source_account_id and request.amount > 0`
is_funded(product_type, amount, source_account_id) ==
    \/ product_type = "deposit"
    \/ product_type = "card" /\ source_account_id # None /\ amount > 0

\* POST /product-agreements.  The handler's parameter is token_data; the name
\* it reads is current_client, which nothing in the module binds.
create_agreement_response(current_client_bound, token, product_type, amount, source_account_id) ==
    IF ~require_any_token(token) THEN Resp("401", 0)
    ELSE IF ~current_client_bound THEN Resp("500", 0)
    ELSE IF token.sub \notin Clients THEN Resp("404", 0)
    ELSE IF product_type \notin ProductTypes THEN Resp("404", 0)
    ELSE IF product_min_amount(product_type) # 0 /\ amount < product_min_amount(product_type)
         THEN Resp("400", 0)
    ELSE IF product_type = "deposit" /\ source_account_id = None THEN Resp("400", 0)
    ELSE IF product_type = "card" /\ amount > 0 /\ source_account_id = None THEN Resp("400", 0)
    ELSE IF /\ is_funded(product_type, amount, source_account_id)
            /\ source_account_error(token.sub, source_account_id, amount) # None
         THEN Resp(source_account_error(token.sub, source_account_id, amount), 0)
    ELSE IF product_type = "loan" /\ bank_capital < amount THEN Resp("400", 0)
    ELSE Resp("200", 0)

\* The handler selects the source account or the capital row and runs its checks.
create_agreement_select(p) ==
    /\ FreeWorker(p)
    /\ CanCreateAccount
    /\ Len(transactions) < MaxTransactions
    /\ \E current_client_bound \in BOOLEAN, token \in Tokens, product_type \in ProductTypes,
          amount \in 0..MaxAmount,
          source_account_id \in LocalAccounts \cup {AccountPool[1], None} :
        /\ create_agreement_response(current_client_bound, token, product_type, amount,
                                     source_account_id).code = "200"
        /\ product_type = "loan" => source_account_id = None
        /\ FirstAccountCanonical(token.sub)
        /\ sessions' = [sessions EXCEPT ![p] =
               [NoSession EXCEPT
                   !.pc = "create_agreement", !.product_type = product_type,
                   !.client = token.sub, !.amount = amount,
                   !.account = IF is_funded(product_type, amount, source_account_id)
                               THEN source_account_id ELSE None,
                   !.balance = IF is_funded(product_type, amount, source_account_id)
                               THEN accounts[source_account_id].balance ELSE 0,
                   !.capital = bank_capital, !.total_loans = total_loans]]
    /\ UNCHANGED <<pagingVars, now, bank_settings, notifications, registryVars, paymentConsentVars, ledgerVars, calls, vrpVars, productVars>>

\* The commit: the debit of the source, the product's account, the
\* transactions, the capital row written from the values the session read,
\* and the agreement.
create_agreement_commit(p) ==
    LET s == sessions[p]
        funded == s.account # None
        opened == IF s.product_type = "card" /\ ~funded THEN 0 ELSE s.amount
    IN  /\ s.pc = "create_agreement"
        /\ accounts' = [a \in DOMAIN accounts \cup {NewAccountId} |->
               IF a = NewAccountId
               THEN AddAccount(s.client, s.product_type, opened)[a]
               ELSE IF funded /\ a = s.account
               THEN [accounts[a] EXCEPT !.balance = s.balance - s.amount]
               ELSE accounts[a]]
        /\ transactions' = transactions
               \o (IF funded THEN <<Tx(s.account, s.amount, "debit")>> ELSE <<>>)
               \o (IF s.product_type = "deposit" \/ (s.product_type = "card" /\ opened > 0)
                   THEN <<Tx(NewAccountId, opened, "credit")>> ELSE <<>>)
        /\ IF s.product_type = "loan"
           THEN /\ bank_capital' = s.capital - s.amount
                /\ total_loans' = s.total_loans + s.amount
           ELSE UNCHANGED <<bank_capital, total_loans>>
        /\ agreements' = Append(agreements,
               [agreement_id |-> Len(agreements) + 1, client_id |-> s.client,
                product_type |-> s.product_type, account_id |-> NewAccountId,
                amount |-> s.amount, status |-> "active"])
        /\ sessions' = [sessions EXCEPT ![p] = NoSession]
        /\ UNCHANGED <<pagingVars, now, bank_settings, notifications, registryVars, paymentConsentVars, payments, interbank_transfers, calls, vrpVars>>

AgreementIds == 0..Len(AccountPool)
AgreementRows(client, agreement_id) ==
    {i \in DOMAIN agreements :
        agreements[i].agreement_id = agreement_id /\ agreements[i].client_id = client}

\* a loan whose account still carries a balance must be repaid at closing
debt_of(agreement) ==
    IF agreement.product_type = "loan" /\ accounts[agreement.account_id].balance > 0
    THEN accounts[agreement.account_id].balance ELSE 0

\* DELETE /product-agreements/{agreement_id}
close_agreement_response(current_client_bound, token, agreement_id, repayment_account_id) ==
    IF ~require_any_token(token) THEN Resp("401", 0)
    ELSE IF ~current_client_bound THEN Resp("500", 0)
    ELSE IF token.sub \notin Clients THEN Resp("404", 0)
    ELSE IF AgreementRows(token.sub, agreement_id) = {} THEN Resp("404", 0)
    ELSE LET row == CHOOSE i \in AgreementRows(token.sub, agreement_id) : TRUE
             debt == debt_of(agreements[row])
         IN  IF agreements[row].status = "closed" THEN Resp("400", row)
             ELSE IF debt > 0 /\ repayment_account_id = None THEN Resp("400", row)
             ELSE IF debt > 0 /\ source_account_error(token.sub, repayment_account_id, debt) # None
                  THEN Resp(source_account_error(token.sub, repayment_account_id, debt), row)
             ELSE Resp("200", row)

\* repayment_account.balance -= debt, then loan_account.balance = 0, on the
\* rows of one session; the agreement and its account are closed
close_agreement_effect(row, repayment_account_id) ==
    LET agreement == agreements[row]
        debt == debt_of(agreement)
    IN  [accounts |-> [a \in DOMAIN accounts |->
             IF a = agreement.account_id
             THEN [accounts[a] EXCEPT !.balance = IF debt > 0 THEN 0 ELSE @,
                                      !.status = "closed"]
             ELSE IF debt > 0 /\ a = repayment_account_id
             THEN [accounts[a] EXCEPT !.balance = @ - debt]
             ELSE accounts[a]],
         transactions |-> IF debt > 0
                          THEN <<Tx(repayment_account_id, debt, "debit"),
                                 Tx(agreement.account_id, debt, "credit")>>
                          ELSE <<>>,
         bank_capital |-> bank_capital + debt,
         total_loans |-> total_loans - debt]

close_agreement ==
    /\ Len(transactions) < MaxTransactions
    /\ \E current_client_bound \in BOOLEAN, token \in Tokens, agreement_id \in AgreementIds,
          repayment_account_id \in DOMAIN accounts \cup {None} :
        LET res == close_agreement_response(current_client_bound, token, agreement_id,
                                            repayment_account_id)
            effect == close_agreement_effect(res.row, repayment_account_id)
        IN  /\ res.code = "200"
            /\ debt_of(agreements[res.row]) = 0 => repayment_account_id = None
            /\ accounts' = effect.accounts
            /\ transactions' = transactions \o effect.transactions
            /\ bank_capital' = effect.bank_capital
            /\ total_loans' = effect.total_loans
            /\ agreements' = [agreements EXCEPT ![res.row].status = "closed"]
    /\ UNCHANGED <<pagingVars, now, bank_settings, notifications, registryVars, paymentConsentVars, payments, interbank_transfers, calls, vrpVars, sessions>>

\* close_agreement as two requests run it side by side: the handler selects
\* the agreement, the loan account, the repayment account and the capital row
\* and runs its checks (no lock is taken); the commit writes the values the
\* session computed from the rows it read.
close_agreement_select(p) ==
    /\ FreeWorker(p)
    /\ Len(transactions) < MaxTransactions
    /\ \E current_client_bound \in BOOLEAN, token \in Tokens, agreement_id \in AgreementIds,
          repayment_account_id \in DOMAIN accounts \cup {None} :
        LET res == close_agreement_response(current_client_bound, token, agreement_id,
                                            repayment_account_id)
            debt == debt_of(agreements[res.row])
        IN  /\ res.code = "200"
            /\ debt = 0 => repayment_account_id = None
            /\ sessions' = [sessions EXCEPT ![p] =
                   [NoSession EXCEPT
                       !.pc = "close_agreement", !.agreement = res.row,
                       !.account = repayment_account_id, !.amount = debt,
                       !.balance = IF debt > 0 THEN accounts[repayment_account_id].balance ELSE 0,
                       !.capital = bank_capital, !.total_loans = total_loans]]
    /\ UNCHANGED <<pagingVars, now, bank_settings, notifications, registryVars, paymentConsentVars, ledgerVars, calls, vrpVars, productVars>>

close_agreement_commit(p) ==
    LET s == sessions[p]
        loan_account == agreements[s.agreement].account_id
    IN  /\ s.pc = "close_agreement"
        /\ accounts' = [a \in DOMAIN accounts |->
               IF a = loan_account
               THEN [accounts[a] EXCEPT !.balance = IF s.amount > 0 THEN 0 ELSE @,
                                        !.status = "closed"]
               ELSE IF s.amount > 0 /\ a = s.account
               THEN [accounts[a] EXCEPT !.balance = s.balance - s.amount]
               ELSE accounts[a]]
        /\ transactions' = transactions \o
               (IF s.amount > 0
                THEN <<Tx(s.account, s.amount, "debit"), Tx(loan_account, s.amount, "credit")>>
                ELSE <<>>)
        /\ bank_capital' = IF s.amount > 0 THEN s.capital + s.amount ELSE bank_capital
        /\ total_loans' = IF s.amount > 0 THEN s.total_loans - s.amount ELSE total_loans
        /\ agreements' = [agreements EXCEPT ![s.agreement].status = "closed"]
        /\ sessions' = [sessions EXCEPT ![p] = NoSession]
        /\ UNCHANGED <<pagingVars, now, bank_settings, notifications, registryVars, paymentConsentVars, payments, interbank_transfers, calls, vrpVars>>

\* ------------------------------------ api/accounts.py: history paging
\* limit: int = Query(50, ge=1, le=100): the framework refuses a limit outside
\* 1..100 with 422 before the handler runs; page: int = Query(1) is unbounded.
\* The handler then coerces page < 1 to 1, limit < 1 to 50 and limit > 500 to 500.
paging(page, limit) ==
    IF limit < 1 \/ limit > QueryLimitMax
    THEN [code |-> "422", page |-> 0, limit |-> 0]
    ELSE [code |-> "200",
          page |-> IF page < 1 THEN 1 ELSE page,
          limit |-> IF limit < 1 THEN DefaultLimit
                    ELSE IF limit > HardLimit THEN HardLimit ELSE limit]

\* meta.totalPages
total_pages(limit) == (Len(history) + limit - 1) \div limit

\* order_by(transaction_date.desc()): the rows by descending date; rows of one
\* date come in an order the database chooses anew for every query
Orderings ==
    {order \in [DOMAIN history -> DOMAIN history] :
        /\ \A i, j \in DOMAIN history : i # j => order[i] # order[j]
        /\ \A i, j \in DOMAIN history : i < j => history[order[i]] >= history[order[j]]}

\* .limit(limit).offset((page - 1) * limit)
page_slice(order, page, limit) ==
    LET offset == (page - 1) * limit
        last == IF offset + limit < Len(history) THEN offset + limit ELSE Len(history)
    IN  [k \in 1..(last - offset) |-> order[offset + k]]

\* GET /accounts/{account_id}/transactions: a caller fetches the pages of the
\* account one after the other with one limit
get_transactions_page ==
    /\ \E page \in -1..(MaxHistory + 1), limit \in {0, 1, 2, QueryLimitMax, HardLimit + 1} :
        LET served == paging(page, limit) IN
        /\ served.code = "200"
        /\ served.page = Len(pager.pages) + 1
        /\ pager.pages # <<>> => served.limit = pager.limit
        /\ served.page <= total_pages(served.limit)
        /\ \E order \in Orderings :
              pager' = [limit |-> served.limit,
                        pages |-> Append(pager.pages,
                                         page_slice(order, served.page, served.limit))]
    /\ UNCHANGED <<now, bank_settings, notifications, registryVars, paymentConsentVars, ledgerVars, calls, vrpVars, productVars, sessions, history>>

\* ------------------------------------------------------------ specification
SettingValues == {None, "true", "false"}
SettingKeys == {"auto_approve_consents", "auto_approve_payment_consents"}

InitTables ==
    /\ now = 0
    /\ bank_settings \in [SettingKeys -> SettingValues]
    /\ consent_requests = <<>>
    /\ consents = <<>>
    /\ notifications = <<>>
    /\ payment_consent_requests = <<>>
    /\ payment_consents = <<>>
    /\ accounts = [a \in LocalAccounts |->
                     [client_id |-> AccountOwner[a], balance |-> InitialBalance,
                      currency |-> "RUB", status |-> "active",
                      account_type |-> "checking"]]
    /\ transactions = <<>>
    /\ payments = <<>>
    /\ bank_capital = InitialCapital
    /\ interbank_transfers = <<>>
    /\ calls = [p \in Procs |-> Idle]
    /\ vrp_consents = <<>>
    /\ vrp_payments = <<>>
    /\ agreements = <<>>
    /\ total_loans = 0
    /\ sessions = [p \in Procs |-> NoSession]

Init == InitTables /\ history = <<>> /\ pager = [limit |-> 0, pages |-> <<>>]

\* The account-access consent registry and its callers.
InitConsent == Init /\ bank_settings["auto_approve_payment_consents"] = None

NextConsent ==
    \/ Tick
    \/ request_consent
    \/ sign_consent
    \/ authorize_consent
    \/ revoke_consent
    \/ delete_account_access_consents_consent_id
    \/ call_check_consent

SpecConsent == InitConsent /\ [][NextConsent]_vars

\* The account reads, over the same registry.
NextAccess ==
    \/ Tick
    \/ request_consent
    \/ sign_consent
    \/ revoke_consent
    \/ get_accounts
    \/ get_account
    \/ get_balances
    \/ get_transactions

SpecAccess == InitConsent /\ [][NextAccess]_vars

\* Payment consents and the payments made under them.
InitPay == Init /\ bank_settings["auto_approve_consents"] = None

NextPay ==
    \/ Tick
    \/ create_payment_consent_request
    \/ approve_payment_consent
    \/ reject_payment_consent
    \/ revoke_payment_consent
    \/ \E p \in Procs : create_payment_check_consent(p)
    \/ \E p \in Procs : create_payment_initiate(p)
    \/ \E p \in Procs : create_payment_mark_used(p)

SpecPay == InitPay /\ [][NextPay]_vars

\* VRP consents and the payments made under them.
\* (no VRP handler reads BankSettings)
NextVrp ==
    \/ Tick
    \/ create_vrp_consent
    \/ delete_vrp_consent
    \/ update_account_status
    \/ \E p \in Procs : create_vrp_payment_select(p)
    \/ \E p \in Procs : create_vrp_payment_commit(p)

InitVrp == InitPay /\ bank_settings["auto_approve_payment_consents"] = None

SpecVrp == InitVrp /\ [][NextVrp]_vars

\* Accounts, product agreements and the bank's capital.
\* (neither BankSettings nor the clock is read by these handlers)
NextLedger ==
    \/ \E p \in Procs : create_account(p)
    \/ \E p \in Procs : create_account_initial_tx(p)
    \/ close_account_with_balance
    \/ \E p \in Procs : create_agreement_select(p)
    \/ \E p \in Procs : create_agreement_commit(p)
    \/ close_agreement

SpecLedger == InitVrp /\ [][NextLedger]_vars

\* Product agreements opened and closed by requests that run side by side.
NextRepay ==
    \/ \E p \in Procs : create_agreement_select(p)
    \/ \E p \in Procs : create_agreement_commit(p)
    \/ \E p \in Procs : close_agreement_select(p)
    \/ \E p \in Procs : close_agreement_commit(p)

SpecRepay == InitVrp /\ [][NextRepay]_vars

\* Answers to consent requests given by requests that run side by side.
InitApprove == InitConsent /\ bank_settings["auto_approve_consents"] # "true"

NextApprove ==
    \/ Tick
    \/ request_consent
    \/ revoke_consent
    \/ \E p \in Procs : sign_consent_select(p)
    \/ \E p \in Procs : sign_consent_commit(p)

SpecApprove == InitApprove /\ [][NextApprove]_vars

\* The paging of one account's history, for every history of up to
\* MaxHistory rows.
InitPaging ==
    /\ InitTables
    /\ bank_settings = [k \in SettingKeys |-> None]
    /\ history \in UNION {[1..n -> 0..MaxTime] : n \in 0..MaxHistory}
    /\ pager = [limit |-> 0, pages |-> <<>>]

NextPaging == get_transactions_page

SpecPaging == InitPaging /\ [][NextPaging]_vars

\* The whole program.
Next == NextConsent \/ NextAccess \/ NextPay \/ NextVrp \/ NextLedger \/ NextPaging \/ NextApprove \/ NextRepay

Spec == Init /\ [][Next]_vars

\* ------------------------------------------------------------- properties
CheckInputs ==
    (Clients \cup {UnknownClient}) \X Banks \X (PermissionLists \cup RequiredPermissions)
        \X ConsentIdHeaders

\* C1: whenever check_consent returns a consent, the consent is granted to the
\* requesting bank by the named client, is stored as 'active', expires strictly
\* after now, and carries every permission the call requires.
C1_ReturnedConsentIsValid ==
    \A in \in CheckInputs :
        LET res == check_consent(in[1], in[2], in[3], in[4]) IN
        res.kind = "consent" =>
            /\ consents[res.row].granted_to = in[2]
            /\ consents[res.row].client_id = in[1]
            /\ consents[res.row].status = "active"
            /\ now < consents[res.row].expiration_date_time
            /\ in[3] \subseteq consents[res.row].permissions

\* a call has just returned a consent, while another consent of the registry is
\* stored as 'active' and has run out
C1_Witness ==
    /\ \E in \in CheckInputs :
          LET res == check_consent(in[1], in[2], in[3], in[4]) IN
          /\ res.kind = "consent"
          /\ in[3] # {}
          /\ consents[res.row].last_accessed_at = now
    /\ \E i \in DOMAIN consents :
          consents[i].status = "active" /\ consents[i].expiration_date_time <= now

\* C2: check_consent never fails with an error; in every registry state, also
\* with two active unexpired consents of one client for one bank, the call
\* returns a consent or 'no consent'.
C2_CheckConsentNeverErrors ==
    \A in \in CheckInputs : check_consent(in[1], in[2], in[3], in[4]).kind # "error"

ReadInputs == AccountIds \X BankHeaders \X ConsentIdHeaders

\* C9: a read of accounts, account detail, balances or transactions made with an
\* institution token returns data only if check_consent, called in that request
\* for the subject client and the read's permission, returned a consent.
C9_InstitutionReadsNeedConsent ==
    \A b \in Banks :
        /\ \A c \in Clients, h \in BankHeaders, cid \in ConsentIdHeaders :
              get_accounts_response(TeamToken(b), c, h, cid).code = "200" =>
                  /\ h # None
                  /\ check_consent(c, h, {"ReadAccountsDetail"}, cid).kind = "consent"
        /\ \A in \in ReadInputs :
              LET granted(perm) ==
                      /\ in[2] # None
                      /\ check_consent(accounts[in[1]].client_id, in[2], {perm}, in[3]).kind
                             = "consent"
              IN  /\ get_account_response(TeamToken(b), in[1], in[2], in[3]).code = "200"
                        => granted("ReadAccountsDetail")
                  /\ get_balances_response(TeamToken(b), in[1], in[2], in[3]).code = "200"
                        => granted("ReadBalances")
                  /\ get_transactions_response(TeamToken(b), in[1], in[2], in[3]).code = "200"
                        => granted("ReadTransactionsDetail")

\* C10: a request made with an institution token whose x-requesting-bank header
\* names an institution is allowed only if the header equals the token's sub,
\* also when the institution the header names holds a consent of the client.
C10_HeaderEqualsTokenSub ==
    \A b \in Banks, h \in Banks, cid \in ConsentIdHeaders :
        /\ \A c \in Clients :
              get_accounts_response(TeamToken(b), c, h, cid).code = "200" => h = b
        /\ \A a \in LocalAccounts :
              /\ get_account_response(TeamToken(b), a, h, cid).code = "200" => h = b
              /\ get_balances_response(TeamToken(b), a, h, cid).code = "200" => h = b

PaymentInputs ==
    BOOLEAN \X Tokens \X BankHeaders \X PaymentConsentIdHeaders
        \X AccountIds \X CreditorAccounts \X Amounts

PaymentsUnder(consent_id) ==
    {i \in DOMAIN payments : payments[i].payment_consent_id = consent_id}

Deviates(consent, debtor_account, creditor_account, amount, currency) ==
    \/ consent.debtor_account # debtor_account
    \/ consent.creditor_account # creditor_account
    \/ consent.amount # amount
    \/ consent.currency # currency

\* C5: a payment recorded under a payment consent has the consent's debtor
\* account, creditor account, currency and amount; a create_payment that
\* presents an active, unexpired consent and deviates from it in one of these is
\* answered CONSENT_MISMATCH.
C5_PaymentMatchesConsent ==
    /\ \A p \in DOMAIN payments, i \in DOMAIN payment_consents :
          payments[p].payment_consent_id = payment_consents[i].consent_id =>
              ~Deviates(payment_consents[i], payments[p].from_account,
                        payments[p].to_account, payments[p].amount, payments[p].currency)
    /\ \A in \in PaymentInputs, i \in DOMAIN payment_consents :
          /\ payment_consents[i].consent_id = in[4]
          /\ payment_consents[i].status = "active"
          /\ payment_consents[i].expiration_date_time > now
          /\ in[5] \in LocalAccounts
          /\ Deviates(payment_consents[i], in[5], in[6], in[7], accounts[in[5]].currency)
          => create_payment_response(in[1], in[2], in[3], in[4], in[5], in[6], in[7]).code
                 = "CONSENT_MISMATCH"

IsTerminal(row) ==
    \/ row.status \in {"rejected", "Revoked", "revoked", "used"}
    \/ /\ row.status = "active"
       /\ row.expiration_date_time <= now

\* C7: a consent or consent request whose status is Rejected, Revoked, Expired
\* or Consumed keeps its stored status in every step; in particular a revoke
\* changes only a consent that is Authorized.
C7_TerminalStatusIsFinal ==
    [][ /\ \A i \in DOMAIN payment_consents :
              IsTerminal(payment_consents[i]) =>
                  payment_consents'[i].status = payment_consents[i].status
        /\ \A i \in DOMAIN consents :
              IsTerminal(consents[i]) => consents'[i].status = consents[i].status
        /\ \A i \in DOMAIN payment_consent_requests :
              payment_consent_requests[i].status = "rejected" =>
                  payment_consent_requests'[i].status = "rejected"
        /\ \A i \in DOMAIN consent_requests :
              consent_requests[i].status = "rejected" =>
                  consent_requests'[i].status = "rejected" ]_vars

\* C8: an approve, reject or revoke call has an effect only when its caller is
\* the client who owns the consent or the consent request.
C8_OnlyGrantorDecides ==
    \A token \in Tokens :
        /\ \A id \in PaymentRequestIds :
              /\ approve_payment_consent_response(token, id).row # 0 =>
                    token = ClientToken(payment_consent_requests[
                                approve_payment_consent_response(token, id).row].client_id)
              /\ reject_payment_consent_response(token, id).row # 0 =>
                    token = ClientToken(payment_consent_requests[
                                reject_payment_consent_response(token, id).row].client_id)
        /\ \A id \in PaymentConsentIds :
              revoke_payment_consent_response(token, id).row # 0 =>
                  token = ClientToken(payment_consents[
                              revoke_payment_consent_response(token, id).row].client_id)
        /\ \A id \in ConsentIds :
              /\ delete_account_access_consents_consent_id_response(token, id).row # 0 =>
                    token = ClientToken(consents[
                        delete_account_access_consents_consent_id_response(token, id).row].client_id)
              /\ revoke_consent_response(token, id).row # 0 =>
                    token = ClientToken(consents[revoke_consent_response(token, id).row].client_id)

\* C11: a read of account detail, balances or transactions made with a client
\* token is answered with data only if the token's sub is the owner of the
\* account; a client never reads another client's account.
C11_ClientReadsOwnAccountsOnly ==
    \A c \in Clients, a \in DOMAIN accounts, h \in BankHeaders, cid \in ConsentIdHeaders :
        accounts[a].client_id # c =>
            /\ get_account_response(ClientToken(c), a, h, cid).code # "200"
            /\ get_balances_response(ClientToken(c), a, h, cid).code # "200"
            /\ get_transactions_response(ClientToken(c), a, h, cid).code # "200"

\* the VRP payments executed under a consent, and their total
ExecutedUnder(consent_id) ==
    {i \in DOMAIN vrp_payments : vrp_payments[i].vrp_consent_id = consent_id}

RECURSIVE TotalAmount(_)
TotalAmount(rows) ==
    IF rows = {} THEN 0
    ELSE LET i == CHOOSE j \in rows : TRUE
         IN  vrp_payments[i].amount + TotalAmount(rows \ {i})

\* C12: for every VRP consent with a period cap, the amounts of the payments
\* executed under it within one period sum to at most max_amount_period
\* (payments executed at the same instant lie in the same calendar period).
C12_PeriodCapHolds ==
    \A i \in DOMAIN vrp_consents :
        vrp_consents[i].max_amount_period # NoLimit =>
            \A t \in 0..MaxTime :
                TotalAmount({j \in ExecutedUnder(vrp_consents[i].consent_id) :
                                 vrp_payments[j].executed_at = t})
                    <= vrp_consents[i].max_amount_period

\* C13: for every VRP consent with a payment count limit, the number of
\* payments executed under it is at most max_payments_count.
C13_PaymentCountHolds ==
    \A i \in DOMAIN vrp_consents :
        vrp_consents[i].max_payments_count # NoLimit =>
            Cardinality(ExecutedUnder(vrp_consents[i].consent_id))
                <= vrp_consents[i].max_payments_count

\* C14: every executed VRP payment has an amount of at most the
\* max_individual_amount of its consent, whatever the value of that cap.
C14_IndividualCapHolds ==
    \A j \in DOMAIN vrp_payments :
        \A i \in VrpConsentRows(vrp_payments[j].vrp_consent_id) :
            vrp_payments[j].amount <= vrp_consents[i].max_individual_amount

\* C15: every executed VRP payment was executed at an instant of
\* [valid_from, valid_to) of its consent.
C15_ExecutedWithinValidity ==
    \A j \in DOMAIN vrp_payments :
        \A i \in VrpConsentRows(vrp_payments[j].vrp_consent_id) :
            /\ vrp_consents[i].valid_from <= vrp_payments[j].executed_at
            /\ vrp_payments[j].executed_at < vrp_consents[i].valid_to

\* C16: in every committed state every checking, savings, card and deposit
\* account has a balance of at least 0.
C16_BalancesNonNegative ==
    \A a \in DOMAIN accounts :
        accounts[a].account_type \in {"checking", "savings", "card", "deposit"} =>
            accounts[a].balance >= 0

\* the signed sum of the transactions of an account: credits minus debits
RECURSIVE NetOf(_, _)
NetOf(a, rows) ==
    IF rows = {} THEN 0
    ELSE LET i == CHOOSE j \in rows : TRUE
             signed == IF transactions[i].account # a THEN 0
                       ELSE IF transactions[i].direction = "credit"
                       THEN transactions[i].amount ELSE 0 - transactions[i].amount
         IN  signed + NetOf(a, rows \ {i})

\* a seeded account opens at its seeded balance; an account opened during the
\* run opens at 0 and receives its first amount as a transaction
OpeningBalance(a) == IF a \in LocalAccounts THEN InitialBalance ELSE 0

\* C17: in every committed state, for every account, balance = opening balance
\* + credits - debits: every change of a balance is committed together with
\* the transactions that match it.
C17_BalanceMatchesHistory ==
    \A a \in DOMAIN accounts :
        accounts[a].balance = OpeningBalance(a) + NetOf(a, DOMAIN transactions)

\* C18: in every reachable state the bank's capital is at least 0.
C18_CapitalNonNegative == bank_capital >= 0

\* C19: no step changes the balance of an account that is closed, or appends
\* a transaction to it.
C19_ClosedAccountIsFrozen ==
    [][\A a \in DOMAIN accounts :
          accounts[a].status = "closed" =>
              /\ accounts'[a].balance = accounts[a].balance
              /\ {i \in DOMAIN transactions' : transactions'[i].account = a}
                     = {i \in DOMAIN transactions : transactions[i].account = a}]_vars

\* a step that commits the opening of a loan which no other write overlapped
LoanOpened(p) ==
    /\ sessions[p].pc = "create_agreement"
    /\ sessions[p].product_type = "loan"
    /\ sessions'[p].pc = "idle"
    /\ sessions[p].capital = bank_capital
    /\ sessions[p].total_loans = total_loans

\* closing loan agreement `row` of client c in the state after the step, with
\* repayment from account r, gives back the capital and total_loans of before
\* the step, closes the loan account at balance 0 and takes exactly the
\* principal from r
RepaymentRestores(row, c, r, principal) ==
    LET effect == close_agreement_effect(row, r)'
        loan_account == agreements'[row].account_id
    IN  /\ close_agreement_response(TRUE, ClientToken(c), row, r)'.code = "200"
        /\ effect.bank_capital = bank_capital
        /\ effect.total_loans = total_loans
        /\ effect.accounts[loan_account].status = "closed"
        /\ effect.accounts[loan_account].balance = 0
        /\ effect.accounts[r].balance = accounts'[r].balance - principal

\* every repayment account that can pay for the loan a step opened restores
\* the state of before the opening
LoanRoundTrip(p) ==
    \A row \in AgreementIds, c \in Clients, principal \in Amounts, r \in DOMAIN accounts' :
        (/\ row = Len(agreements')
         /\ c = sessions[p].client
         /\ principal = sessions[p].amount
         /\ accounts'[r].client_id = c
         /\ accounts'[r].balance >= principal)
            => RepaymentRestores(row, c, r, principal)

\* C20: a loan request of a client for a principal P that the capital covers is
\* accepted, and closing the opened loan with repayment from an account of the
\* same client that holds at least P leaves capital and total_loans at their
\* values before the opening, the loan account closed with balance 0 and the
\* repayment account lower by exactly P.
C20_LoanRoundTrip ==
    [][/\ \A current_client_bound \in BOOLEAN, c \in Clients, amount \in Amounts :
             amount <= bank_capital =>
                 create_agreement_response(current_client_bound, ClientToken(c), "loan",
                                           amount, None).code = "200"
       /\ \A p \in Procs : LoanOpened(p) => LoanRoundTrip(p)]_vars


\* the page and limit parameters a caller may send
RawPages == -1..(MaxHistory + 1)
RawLimits == {0, 1, 2, QueryLimitMax, QueryLimitMax + 1, HardLimit, HardLimit + 1}

\* C21: the history paging accepts limit = 0 and serves it with the default
\* limit, accepts a limit above 500 and serves it with 500, and accepts a page
\* below 1 and serves page 1: none of these requests is refused.
C21_PagingCoercesOutOfRange ==
    \A page \in RawPages, limit \in RawLimits, order \in Orderings :
        LET served == paging(page, limit) IN
        /\ served.code = "200"
        /\ limit = 0 => served.limit = DefaultLimit
        /\ limit > HardLimit => served.limit = HardLimit
        /\ page < 1 => served.page = 1
        /\ page < 1 => page_slice(order, served.page, served.limit)
                           = page_slice(order, 1, served.limit)

\* the rows of the pages fetched so far, first page first
RECURSIVE Concat(_)
Concat(pages) == IF pages = <<>> THEN <<>> ELSE Head(pages) \o Concat(Tail(pages))

\* C22: with no write in between, the pages 1..totalPages of a history, put one
\* after the other, hold every transaction exactly once, by descending
\* transaction_date, also when transactions share a date.
C22_PagesPartitionHistory ==
    (pager.pages # <<>> /\ Len(pager.pages) = total_pages(pager.limit)) =>
        LET rows == Concat(pager.pages) IN
        /\ Len(rows) = Len(history)
        /\ \A r \in DOMAIN history : \E k \in DOMAIN rows : rows[k] = r
        /\ \A j, k \in DOMAIN rows : j < k => history[rows[j]] >= history[rows[k]]

\* C23: revoking a consent that is already Revoked succeeds and answers with
\* the consent's current state; the client's revoke of such a consent is not
\* refused.
C23_RevokeIsIdempotent ==
    \A i \in DOMAIN consents :
        consents[i].status = "Revoked" =>
            LET resp == revoke_consent_response(ClientToken(consents[i].client_id),
                                                consents[i].consent_id)
            IN  resp.code = "Revoked"

\* C24: the step that makes a new account visible with balance N also makes
\* visible its history of exactly one transaction, a credit of amount N.
C24_AccountOpensWithItsCredit ==
    [][\A a \in DOMAIN accounts' \ DOMAIN accounts :
          LET opening == {j \in DOMAIN transactions' : transactions'[j].account = a} IN
          /\ Cardinality(opening) = 1
          /\ \A j \in opening : /\ transactions'[j].direction = "credit"
                                /\ transactions'[j].amount = accounts'[a].balance]_vars

\* C25: when auto_approve_consents is "true" or is not configured, the step
\* that creates an account-access consent request stores it approved together
\* with its active consent and appends no notification.
C25_AutoApproveIsAtomic ==
    [][(/\ Len(consent_requests') = Len(consent_requests) + 1
        /\ bank_settings["auto_approve_consents"] \in {"true", None}) =>
          /\ consent_requests'[Len(consent_requests')].status = "approved"
          /\ Len(consents') = Len(consents) + 1
          /\ consents'[Len(consents')].status = "active"
          /\ consents'[Len(consents')].request_id = IntId(Len(consent_requests'))
          /\ notifications' = notifications]_vars

C27_EmptyScopeCreatesNothing ==
    /\ \A i \in DOMAIN consent_requests : consent_requests[i].permissions # {}
    /\ \A j \in DOMAIN consents : consents[j].permissions # {}

\* C28: approve and reject act only on a pending request.  A request that is
\* approved or rejected is never changed again and gets no further consent,
\* and sign_consent, authorize_consent_by_id, approve_payment_consent and
\* reject_payment_consent refuse it.
C28_OnlyPendingIsAnswered ==
    [][/\ \A i \in DOMAIN consent_requests :
             consent_requests[i].status # "pending" =>
                 /\ consent_requests'[i] = consent_requests[i]
                 /\ {j \in DOMAIN consents' : consents'[j].request_id = IntId(i)}
                        = {j \in DOMAIN consents : consents[j].request_id = IntId(i)}
       /\ \A i \in DOMAIN consent_requests' :
             consent_requests'[i].status # "pending" =>
                 \A token \in Tokens, action \in {"approve", "reject"} :
                     /\ sign_consent_response(token, consent_requests[i].request_id,
                                              action)'.row = 0
                     /\ authorize_consent_response(token, consent_requests[i].request_id,
                                                   action)'.row = 0
       /\ \A i \in DOMAIN payment_consent_requests :
             payment_consent_requests[i].status # "pending" =>
                 /\ payment_consent_requests'[i] = payment_consent_requests[i]
                 /\ {j \in DOMAIN payment_consents' : payment_consents'[j].request_id = IntId(i)}
                        = {j \in DOMAIN payment_consents : payment_consents[j].request_id = IntId(i)}
       /\ \A i \in DOMAIN payment_consent_requests' :
             payment_consent_requests'[i].status # "pending" =>
                 \A token \in Tokens :
                     /\ approve_payment_consent_response(
                            token, payment_consent_requests[i].request_id)'.row = 0
                     /\ reject_payment_consent_response(
                            token, payment_consent_requests[i].request_id)'.row = 0]_vars

\* C29: a read made with an institution token for a client, with the
\* requesting-bank header and without a consent id, is answered
\* CONSENT_REQUIRED whatever consents the registry holds.
C29_NoConsentIdIsRefused ==
    \A b \in Banks, h \in Banks, c \in Clients, a \in LocalAccounts :
        /\ get_accounts_response(TeamToken(b), c, h, NoneId).code = "CONSENT_REQUIRED"
        /\ get_account_response(TeamToken(b), a, h, NoneId).code = "CONSENT_REQUIRED"
        /\ get_balances_response(TeamToken(b), a, h, NoneId).code = "CONSENT_REQUIRED"
        /\ get_transactions_response(TeamToken(b), a, h, NoneId).code = "CONSENT_REQUIRED"

\* C30: a change of an account's status asked with an institution token for a
\* client is carried out only if check_consent returns a consent of that
\* client, for some requesting bank, that holds ManageAccounts.
C30_InstitutionWritesNeedConsent ==
    \A b \in Banks, c \in Clients, a \in DOMAIN accounts, status \in {"active", "closed"} :
        update_account_status_response(TeamToken(b), c, a, status).code = "200" =>
            \E h \in Banks, cid \in ConsentIdHeaders :
                check_consent(c, h, {"ManageAccounts"}, cid).kind = "consent"

\* C31: a read of a consent whose expiration time is at or before now reports
\* Expired, never Authorized, through the get-consent operation as well as
\* through check_consent.
C31_ExpiredConsentReadsExpired ==
    \A i \in DOMAIN consents :
        consents[i].expiration_date_time <= now =>
            /\ \A b \in Banks :
                  get_account_access_consents_consent_id_response(
                      TeamToken(b), consents[i].consent_id).code
                          \in {"Expired", "Revoked", "Rejected"}
            /\ \A permissions \in RequiredPermissions, consent_id \in ConsentIdHeaders :
                  check_consent(consents[i].client_id, consents[i].granted_to,
                                permissions, consent_id) # Found(i)

\* C32: when a consent id is supplied, check_consent returns a consent only if
\* the supplied id is that consent's external consent id: the id of its
\* request, and the text of the request's integer key, are not accepted.
C32_SuppliedIdIsTheConsentId ==
    \A c \in Clients, b \in Banks, permissions \in RequiredPermissions :
        \A consent_id \in (ConsentIdHeaders \ {NoneId})
                              \cup {[k |-> "str", n |-> i] : i \in 1..MaxRequests} :
            LET res == check_consent(c, b, permissions, consent_id) IN
            res.kind = "consent" => consents[res.row].consent_id = consent_id

C32_Witness ==
    \E i \in DOMAIN consents :
        /\ check_consent(consents[i].client_id, consents[i].granted_to, {"ReadAccountsDetail"},
                         consents[i].consent_id) = Found(i)
        /\ check_consent(consents[i].client_id, consents[i].granted_to, {"ReadAccountsDetail"},
                         consent_requests[consents[i].request_id.n].request_id) = NoConsent

\* C33: in every reachable state every closed account has balance 0.
C33_ClosedAccountIsEmpty ==
    \A a \in DOMAIN accounts : accounts[a].status = "closed" => accounts[a].balance = 0

\* C34: a close with action transfer moves the whole balance to another
\* account of the same client: the debit and the credit it appends name two
\* different accounts of one client, the closed account ends at 0 and the
\* destination gains exactly the closed account's balance.
C34_TransferCloseKeepsTheSum ==
    [][(/\ Len(transactions') = Len(transactions) + 2
        /\ agreements' = agreements) =>
          LET debit == transactions'[Len(transactions) + 1]
              credit == transactions'[Len(transactions) + 2]
          IN  /\ debit.direction = "debit" /\ credit.direction = "credit"
              /\ debit.amount = accounts[debit.account].balance
              /\ credit.amount = debit.amount
              /\ credit.account # debit.account
              /\ accounts[credit.account].client_id = accounts[debit.account].client_id
              /\ accounts'[debit.account].balance = 0
              /\ accounts'[credit.account].balance
                    = accounts[credit.account].balance + accounts[debit.account].balance]_vars

\* the commit of a deposit opened by worker p: the source is debited by the
\* amount, the deposit account is created with it, and one debit and one
\* credit of it are appended, in one step
DepositOpens(p) ==
    LET s == sessions[p] IN
    (s.pc = "create_agreement" /\ s.product_type = "deposit" /\ sessions'[p].pc # s.pc) =>
        \A x \in DOMAIN accounts, d \in DOMAIN accounts' \ DOMAIN accounts :
            x = s.account =>
                /\ accounts'[d].balance = s.amount
                /\ accounts'[d].account_type = "deposit"
                /\ accounts'[x].balance + accounts'[d].balance = accounts[x].balance
                /\ Len(transactions') = Len(transactions) + 2
                /\ transactions'[Len(transactions) + 1] = Tx(x, s.amount, "debit")
                /\ transactions'[Len(transactions) + 2] = Tx(d, s.amount, "credit")

\* C35: a deposit of amount A from a source account X of the client is opened
\* when X holds at least A, by one commit that debits X by A and creates the
\* deposit account with balance A and one debit and one credit of A; when X
\* holds less than A the request is refused.
C35_DepositMovesTheAmount ==
    [][/\ \A current_client_bound \in BOOLEAN, c \in Clients, amount \in Amounts,
            x \in DOMAIN accounts :
             accounts[x].client_id = c =>
                 LET code == create_agreement_response(current_client_bound, ClientToken(c),
                                                       "deposit", amount, x).code
                 IN  (code = "200") = (accounts[x].balance >= amount)
       /\ \A p \in Procs : DepositOpens(p)]_vars

\* C36: an operation given a negative amount is refused and writes nothing: no
\* step stores a VRP payment with a negative amount, creates an account with a
\* negative balance or stores an agreement with a negative amount.
C36_NegativeAmountWritesNothing ==
    [][/\ \A j \in DOMAIN vrp_payments' \ DOMAIN vrp_payments : vrp_payments'[j].amount >= 0
       /\ \A a \in DOMAIN accounts' \ DOMAIN accounts : accounts'[a].balance >= 0
       /\ \A k \in DOMAIN agreements' \ DOMAIN agreements : agreements'[k].amount >= 0]_vars

\* C37: a step of a handler that calls check_consent and gets a consent sets
\* that consent's last_accessed_at to now and changes nothing else: no other
\* field, no other consent, no request, no notification.  (A call that gets
\* no consent writes nothing: it is no step at all.)
C37_CheckTouchesOnlyLastAccess ==
    [][(call_check_consent \/ get_accounts \/ get_account \/ get_balances \/ get_transactions) =>
          /\ \E c \in Clients, b \in Banks, permissions \in RequiredPermissions,
                consent_id \in ConsentIdHeaders :
                LET res == check_consent(c, b, permissions, consent_id) IN
                /\ res.kind = "consent"
                /\ consents' = [consents EXCEPT ![res.row].last_accessed_at = now]
          /\ consent_requests' = consent_requests
          /\ notifications' = notifications
          /\ UNCHANGED <<now, bank_settings, paymentConsentVars, ledgerVars>>]_vars

C37_Witness ==
    \E i \in DOMAIN consents :
        /\ consents[i].last_accessed_at = now
        /\ consents[i].status = "active"
        /\ Len(consents) = MaxRequests

\* C38: under every interleaving of approve calls on one pending request, each
\* request has at most one consent in every reachable state.
C38_OneConsentPerRequest ==
    \A i \in DOMAIN consent_requests :
        Cardinality({j \in DOMAIN consents : consents[j].request_id = IntId(i)}) <= 1

\* C39: create_vrp_payment accepts a payment, and so debits the consent's
\* account, only when the authenticated client owns the VRP consent presented.
C39_VrpPayerOwnsTheConsent ==
    \A c \in Clients, vrp_consent_id \in VrpConsentIds, amount \in Amounts :
        LET res == create_vrp_payment_response(ClientToken(c), vrp_consent_id, amount) IN
        res.code = "201" => vrp_consents[res.row].client_id = c

====
